---- MODULE Spec2Model ----
(***************************************************************************)
(* GitVault: the refresh path of the plugin.                               *)
(*                                                                         *)
(* A document text is a sequence of atoms (strings).  Literal pieces of    *)
(* the template, the sentinel marker and the pieces of user prose are one  *)
(* atom each; a URL is spelled character by character, so that the URL     *)
(* parser works on characters.  String concatenation is \o on sequences.   *)
(***************************************************************************)
EXTENDS Integers, Sequences, FiniteSets, TLC

(***************************************************************************)
(* Bounds of the model.                                                    *)
(***************************************************************************)
\* longest body (atoms after the front matter) of a document at start
MaxBody == 2

(***************************************************************************)
(* Strings.                                                                *)
(***************************************************************************)
\* refresh-data.ts:85  const marker = '<!-- project-snapshot-end -->'
marker == "<!-- project-snapshot-end -->"

NL == "\n"

\* 'https://github.com/' spelled out
HostPrefix ==
  <<"h","t","t","p","s",":","/","/","g","i","t","h","u","b",".","c","o","m","/">>

\* the literal github\.com\/ of both patterns of parseGitHubUrl
HostLiteral == <<"g","i","t","h","u","b",".","c","o","m","/">>

DotGit == <<".","g","i","t">>

\* html_url of a repository as the remote reports it
CanonicalUrl(owner, repo) == HostPrefix \o owner \o <<"/">> \o repo

(***************************************************************************)
(* Helpers on sequences (JavaScript string operations).                    *)
(***************************************************************************)
\* s.startsWith(p, i) with i counted from 1
MatchesAt(s, p, i) ==
  /\ i >= 1
  /\ i + Len(p) - 1 <= Len(s)
  /\ SubSeq(s, i, i + Len(p) - 1) = p

\* s.indexOf(p) counted from 1; 0 when p does not occur
IndexOf(s, p) ==
  IF \E i \in 1..Len(s) : MatchesAt(s, p, i)
  THEN CHOOSE i \in 1..Len(s) :
         /\ MatchesAt(s, p, i)
         /\ \A j \in 1..(i - 1) : ~MatchesAt(s, p, j)
  ELSE 0

\* s.replace(p, '') : the first occurrence of p removed
ReplaceFirst(s, p) ==
  LET i == IndexOf(s, p)
  IN IF i = 0 THEN s
     ELSE SubSeq(s, 1, i - 1) \o SubSeq(s, i + Len(p), Len(s))

\* the longest run of characters other than '/' starting at i : [^\/]+
RECURSIVE RunEnd(_, _)
RunEnd(s, i) ==
  IF i <= Len(s) /\ s[i] # "/" THEN RunEnd(s, i + 1) ELSE i - 1

\* sections.join(sep)
RECURSIVE Join(_, _)
Join(sections, sep) ==
  IF Len(sections) = 0 THEN <<>>
  ELSE IF Len(sections) = 1 THEN sections[1]
  ELSE sections[1] \o <<sep>> \o Join(Tail(sections), sep)

\* text.split(sep) for a one-atom separator: the pieces between occurrences
RECURSIVE Split(_, _)
Split(text, sep) ==
  LET i == IndexOf(text, <<sep>>)
  IN IF i = 0 THEN <<text>>
     ELSE <<SubSeq(text, 1, i - 1)>> \o Split(SubSeq(text, i + 1, Len(text)), sep)

(***************************************************************************)
(* GitHubAPI.parseGitHubUrl                                                *)
(***************************************************************************)
\* the parser's null
NoParse == [ok |-> FALSE, owner |-> <<>>, repo |-> <<>>]

\* /github\.com\/([^\/]+)\/([^\/]+)/ matches with the literal at position i
Pattern1At(url, i) ==
  LET o1 == i + Len(HostLiteral)
      o2 == RunEnd(url, o1)
      r1 == o2 + 2
      r2 == RunEnd(url, r1)
  IN /\ MatchesAt(url, HostLiteral, i)
     /\ o2 >= o1
     /\ o2 + 1 <= Len(url) /\ url[o2 + 1] = "/"
     /\ r2 >= r1

\* the groups of the leftmost match of the first pattern
Pattern1Groups(url, i) ==
  LET o1 == i + Len(HostLiteral)
      o2 == RunEnd(url, o1)
      r1 == o2 + 2
      r2 == RunEnd(url, r1)
  IN [owner |-> SubSeq(url, o1, o2), repo |-> SubSeq(url, r1, r2)]

\* the ends e of group 2 of /github\.com\/([^\/]+)\/([^\/]+)\.git/ at position i
Pattern2Ends(url, i) ==
  LET o1 == i + Len(HostLiteral)
      o2 == RunEnd(url, o1)
      r1 == o2 + 2
      r2 == RunEnd(url, r1)
  IN IF MatchesAt(url, HostLiteral, i) /\ o2 >= o1
        /\ o2 + 1 <= Len(url) /\ url[o2 + 1] = "/"
     THEN {e \in r1..r2 : MatchesAt(url, DotGit, e + 1) /\ e + Len(DotGit) <= r2}
     ELSE {}

Pattern2At(url, i) == Pattern2Ends(url, i) # {}

\* greedy: group 2 is the longest that still leaves '.git' behind it
Pattern2Groups(url, i) ==
  LET o1 == i + Len(HostLiteral)
      o2 == RunEnd(url, o1)
      r1 == o2 + 2
      e  == CHOOSE x \in Pattern2Ends(url, i) : \A y \in Pattern2Ends(url, i) : y <= x
  IN [owner |-> SubSeq(url, o1, o2), repo |-> SubSeq(url, r1, e)]

\* the leftmost position where the first pattern matches; 0 when there is none
FirstMatch1(url) ==
  IF \E i \in 1..Len(url) : Pattern1At(url, i)
  THEN CHOOSE i \in 1..Len(url) :
         Pattern1At(url, i) /\ \A j \in 1..(i - 1) : ~Pattern1At(url, j)
  ELSE 0

\* the leftmost position where the second pattern matches; 0 when there is none
FirstMatch2(url) ==
  IF \E i \in 1..Len(url) : Pattern2At(url, i)
  THEN CHOOSE i \in 1..Len(url) :
         Pattern2At(url, i) /\ \A j \in 1..(i - 1) : ~Pattern2At(url, j)
  ELSE 0

\* api.ts:69-85
parseGitHubUrl(url) ==
  LET m1 == FirstMatch1(url)
      m2 == FirstMatch2(url)
  IN IF m1 # 0
     THEN [ok |-> TRUE,
           owner |-> Pattern1Groups(url, m1).owner,
           repo |-> ReplaceFirst(Pattern1Groups(url, m1).repo, DotGit)]
     ELSE IF m2 # 0
     THEN [ok |-> TRUE,
           owner |-> Pattern2Groups(url, m2).owner,
           repo |-> ReplaceFirst(Pattern2Groups(url, m2).repo, DotGit)]
     ELSE NoParse

(***************************************************************************)
(* RepoData and the remote responses.                                      *)
(*                                                                         *)
(* Dates are day numbers in a one-element sequence; the empty sequence is  *)
(* the empty string '' that fetchRepoData stores for a missing author      *)
(* date, for which new Date('') is an Invalid Date.                        *)
(***************************************************************************)
NoDate == <<>>

\* the star counts the remote may report
StarCounts == {42, 43}

\* the commit dates the remote may report: absent, or a day
CommitDates == {NoDate, <<1>>}

\* the values Date.now() takes, in days
Clock == {5}

\* fetchRepoData's null
NullData ==
  [isNull |-> TRUE, owner |-> <<>>, repo |-> <<>>, fullName |-> <<>>,
   description |-> "", stars |-> 0, forks |-> 0, createdAt |-> NoDate,
   language |-> "",
   lastCommit |-> [message |-> "", date |-> NoDate, author |-> "", sha |-> ""],
   openIssues |-> 0, url |-> <<>>, homepage |-> "", topics |-> <<>>]

\* api.ts:318-338 : the record built from the three responses
RepoData(owner, repo, stars, commitDate) ==
  [isNull |-> FALSE, owner |-> owner, repo |-> repo,
   fullName |-> owner \o <<"/">> \o repo,
   description |-> "No description", stars |-> stars, forks |-> 7,
   createdAt |-> <<0>>, language |-> "Rust",
   lastCommit |-> [message |-> "init", date |-> commitDate,
                   author |-> "Unknown", sha |-> "abc1234"],
   openIssues |-> 3, url |-> CanonicalUrl(owner, repo),
   homepage |-> "", topics |-> <<>>]

\* what one fetchRepoData call can come back with
FetchStatuses == {"ok", "404", "403", "other"}

(***************************************************************************)
(* ProjectNoteTemplate                                                     *)
(***************************************************************************)
\* settings.ts:18-29 DEFAULT_SETTINGS.templateCustomization
DefaultSettings ==
  [templateCustomization |->
     [includeDescription |-> TRUE, includeLastCommit |-> TRUE,
      includeIssues |-> TRUE, includeStars |-> TRUE]]

\* String.prototype.toLowerCase on the languages of the model
toLowerCase(str) == IF str = "Rust" THEN "rust" ELSE str

\* date-fns formatDistanceToNow: a RangeError for an Invalid Date
formatDistanceToNow(date, now) ==
  IF date = NoDate
  THEN [threw |-> TRUE, text |-> <<>>]
  ELSE [threw |-> FALSE, text |-> <<ToString(now - date[1]), " days ago">>]

\* project-note.ts:131-138 ; with an Invalid Date daysSince is NaN and every
\* comparison is false
getActivityStatus(lastCommitDate, now) ==
  IF lastCommitDate = NoDate THEN "Inactive"
  ELSE LET daysSince == now - lastCommitDate[1]
       IN IF daysSince <= 7 THEN "Very Active"
          ELSE IF daysSince <= 30 THEN "Active"
          ELSE IF daysSince <= 90 THEN "Moderate"
          ELSE "Inactive"

Max(a, b) == IF a >= b THEN a ELSE b
Min(a, b) == IF a <= b THEN a ELSE b

\* project-note.ts:140-167
calculateHealthScore(data, now) ==
  LET base == 50
      activity ==
        IF data.lastCommit.date = NoDate THEN 0 - 10
        ELSE LET daysSinceCommit == now - data.lastCommit.date[1]
             IN IF daysSinceCommit <= 7 THEN 25
                ELSE IF daysSinceCommit <= 30 THEN 15
                ELSE IF daysSinceCommit <= 90 THEN 5
                ELSE 0 - 10
      starsBonus ==
        IF data.stars >= 1000 THEN 15
        ELSE IF data.stars >= 100 THEN 10
        ELSE IF data.stars >= 10 THEN 5
        ELSE 0
      issuePenalty ==
        IF data.openIssues > 50 THEN 15
        ELSE IF data.openIssues > 20 THEN 10
        ELSE IF data.openIssues > 10 THEN 5
        ELSE 0
      descriptionBonus == IF data.description # "" THEN 5 ELSE 0
      topicsBonus == IF Len(data.topics) > 0 THEN 5 ELSE 0
  IN Max(0, Min(100, base + activity + starsBonus - issuePenalty
                       + descriptionBonus + topicsBonus))

\* new Date(createdAt).toLocaleDateString()
toLocaleDateString(date) ==
  IF date = NoDate THEN <<"Invalid Date">> ELSE <<"day ", ToString(date[1])>>

\* the sections pushed by generate, in order (project-note.ts:12-115)
Sections(data, settings, now, timeAgo) ==
  LET tc == settings.templateCustomization
      activityStatus == getActivityStatus(data.lastCommit.date, now)
      healthScore == calculateHealthScore(data, now)
      lang == IF data.language # "" THEN data.language ELSE "Unknown"
  IN << <<"---">>,
        <<"repo_url: ">> \o data.url,
        <<"updated: ", ToString(now)>>,
        <<"language: ", lang>>,
        <<"stars: ", ToString(data.stars)>>,
        <<"health_score: ", ToString(healthScore)>>,
        <<"tags:">>,
        <<"  - project-snapshot">> >>
     \o (IF data.language # "" THEN << <<"  - ", toLowerCase(data.language)>> >>
         ELSE << >>)
     \o << <<"---">>,
           << >>,
           <<"# ">> \o data.repo,
           << >>,
           <<"> ", IF data.description # "" THEN data.description
                   ELSE "*No description provided*">>,
           << >>,
           <<"<div status>">>,
           <<"  <span>", activityStatus, "</span>">> >>
     \o (IF data.language # "" THEN << <<"  <span>", data.language, "</span>">> >>
         ELSE << >>)
     \o << <<"  <span>Health: ", ToString(healthScore), "/100</span>">>,
           <<"</div>">>,
           << >>,
           <<"<div stats>">> >>
     \o (IF tc.includeStars THEN << <<"Stars", ToString(data.stars)>> >> ELSE << >>)
     \o << <<"Forks", ToString(data.forks)>> >>
     \o (IF tc.includeIssues THEN << <<"Issues", ToString(data.openIssues)>> >>
         ELSE << >>)
     \o << <<"Language", IF data.language # "" THEN data.language ELSE "N/A">>,
           <<"</div>">>,
           << >> >>
     \o (IF tc.includeLastCommit
         THEN << <<"## Latest Commit">>,
                 << >>,
                 <<"<div commit>">>,
                 <<data.lastCommit.message>>,
                 <<data.lastCommit.author>>,
                 timeAgo,
                 <<data.lastCommit.sha>>,
                 <<"</div>">>,
                 << >> >>
         ELSE << >>)
     \o (IF Len(data.topics) > 0
         THEN << <<"## Topics">>, << >>, <<"<div topics>">> \o data.topics,
                 <<"</div>">>, << >> >>
         ELSE << >>)
     \o << <<"## Quick Actions">>,
           << >>,
           <<"<div actions>">>,
           <<"Repository ">> \o data.url,
           <<"Issues ">> \o data.url \o <<"/issues">>,
           <<"Pull Requests ">> \o data.url \o <<"/pulls">>,
           <<"Commits ">> \o data.url \o <<"/commits">> >>
     \o (IF data.homepage # "" THEN << <<"Website ", data.homepage>> >> ELSE << >>)
     \o << <<"</div>">>,
           << >>,
           <<"## Repository Info">>,
           << >>,
           <<"| Property | Value |">>,
           <<"| :--- | :--- |">>,
           <<"| **Full Name** | ">> \o data.fullName,
           <<"| **Created** | ">> \o toLocaleDateString(data.createdAt),
           <<"| **Language** | ", IF data.language # "" THEN data.language
                                  ELSE "Not specified">> >>
     \o (IF data.homepage # "" THEN << <<"| **Website** | ", data.homepage>> >>
         ELSE << >>)
     \o << << >>,
           <<"---">>,
           <<"<div footer>">>,
           <<"  <span>Project Snapshot</span>">>,
           <<"  <span>Last synced: ", ToString(now), "</span>">>,
           <<"</div>">> >>

\* project-note.ts:6-118 ; formatDistanceToNow is called first and its error is
\* not caught, so generate throws for an Invalid Date
generate(data, settings, now) ==
  LET timeAgo == formatDistanceToNow(data.lastCommit.date, now)
  IN IF timeAgo.threw
     THEN [threw |-> TRUE, text |-> <<>>]
     ELSE [threw |-> FALSE,
           text |-> Join(Sections(data, settings, now, timeAgo.text), NL)]

(***************************************************************************)
(* The merge of refreshSnapshot (refresh-data.ts:85-101).                  *)
(***************************************************************************)
\* the variant that keeps a legacy text instead of overwriting it
FinalContentKeepLegacy(currentContent, newContent) ==
  LET parts == Split(currentContent, marker)
  IN IF Len(parts) > 1
     THEN LET userNotes == parts[2] IN newContent \o userNotes
     ELSE newContent \o currentContent

FinalContent(currentContent, newContent) ==
  LET parts == Split(currentContent, marker)
  IN IF Len(parts) > 1
     THEN LET userNotes == parts[2] IN newContent \o userNotes
     ELSE newContent

(***************************************************************************)
(* The vault and the metadata cache (Obsidian).                            *)
(***************************************************************************)
\* vault.getMarkdownFiles(), in the order the vault lists them
MarkdownFiles == <<"Alpha.md", "Beta.md">>

Files == {MarkdownFiles[i] : i \in 1..Len(MarkdownFiles)}

\* getFileCache(file)?.frontmatter is undefined
NoFrontMatter == [has |-> FALSE, repo_url |-> <<>>, branch |-> <<>>]

\* the first '---' that closes a front matter block opened on line 1
ClosingFence(text) ==
  IF Len(text) >= 2 /\ text[1] = "---" /\ text[2] = NL
     /\ \E i \in 3..Len(text) : text[i] = "---" /\ text[i - 1] = NL
  THEN CHOOSE i \in 3..Len(text) :
         /\ text[i] = "---" /\ text[i - 1] = NL
         /\ \A j \in 3..(i - 1) : ~(text[j] = "---" /\ text[j - 1] = NL)
  ELSE 0

\* the value of `key` in a front matter block: the atoms up to the line end
Value(block, key) ==
  LET k == IndexOf(block, <<key>>)
      rest == SubSeq(block, k + 1, Len(block))
      e == IndexOf(rest, <<NL>>)
  IN IF k = 0 THEN <<>>
     ELSE IF e = 0 THEN rest
     ELSE SubSeq(rest, 1, e - 1)

\* the front matter the metadata cache extracts from a document text
ParseFrontMatter(text) ==
  LET c == ClosingFence(text)
      block == SubSeq(text, 3, c - 1)
  IN IF c = 0 THEN NoFrontMatter
     ELSE [has |-> TRUE,
           repo_url |-> Value(block, "repo_url: "),
           branch |-> Value(block, "branch: ")]

(***************************************************************************)
(* Documents the vault may hold at start.                                  *)
(***************************************************************************)
\* the atoms of a body at start: the marker and a piece of user prose
BodyAtoms == {marker, "my thoughts"}

RECURSIVE SeqsUpTo(_, _)
SeqsUpTo(S, n) ==
  IF n = 0 THEN {<<>>}
  ELSE LET shorter == SeqsUpTo(S, n - 1)
       IN shorter \cup {Append(q, a) : q \in {x \in shorter : Len(x) = n - 1}, a \in S}

Bodies == SeqsUpTo(BodyAtoms, MaxBody)

\* a front matter block with the given repo_url and branch ('' : key absent)
FrontMatterText(repoUrl, branch) ==
  <<"---", NL>>
  \o (IF repoUrl # <<>> THEN <<"repo_url: ">> \o repoUrl \o <<NL>> ELSE <<>>)
  \o (IF branch # <<>> THEN <<"branch: ">> \o branch \o <<NL>> ELSE <<>>)
  \o <<"tags:", NL, "---", NL>>

Owner == <<"o">>
Repo == <<"w">>

\* a document that is no snapshot, or whose repo_url does not parse: no front
\* matter, front matter without repo_url, front matter with a bad repo_url
OtherHeads ==
  {<<>>, FrontMatterText(<<>>, <<>>),
   FrontMatterText(<<"n","o","t","-","a","-","u","r","l">>, <<>>)}

\* the head of a project snapshot
SnapshotHead == FrontMatterText(CanonicalUrl(Owner, Repo), <<>>)

\* the head of a snapshot whose repo_url is the clone URL of the repository
CloneUrlHead == FrontMatterText(CanonicalUrl(Owner, Repo) \o DotGit, <<>>)

InitTexts ==
  {SnapshotHead \o b : b \in Bodies}
  \cup {CloneUrlHead \o <<marker, "my thoughts">>}
  \cup {h \o <<"my thoughts", marker, "my thoughts">> : h \in OtherHeads}

(***************************************************************************)
(* The plugin object: settings, the GitHub client, the auto-refresh timer. *)
(***************************************************************************)
\* settings.ts:18-29 : githubToken '' and autoRefreshInterval 60 minutes
DEFAULT_SETTINGS == [githubToken |-> "", autoRefreshInterval |-> 60]

\* api.ts:32-34, 45-47 : new Octokit({ auth: token || undefined })
Octokit(token) == [auth |-> token]

\* no request has been issued
NoClient == [auth |-> "none"]

\* part_004:152-164 : setInterval is called only for a positive interval; 0
\* stands for no timer registered
registerAutoRefresh(settings) ==
  IF settings.autoRefreshInterval > 0 THEN settings.autoRefreshInterval ELSE 0

\* api.ts:28 : rateLimitRemaining is null; a figure n is <<n>>
NoFigure == <<>>

\* no response has arrived
NoResponse == [client |-> NoClient, status |-> "none", remaining |-> NoFigure]

\* part_004:18-23, 115-122, 149 : the plugin after onload with the settings it
\* loaded; onChange holds the settings-tab handlers that await saveSettings,
\* statusBar the figure onRateLimitChange was last called with, lastResponse
\* the response the network delivered last
onload(settings) ==
  [settings |-> settings,
   githubAPI |-> [octokit |-> Octokit(settings.githubToken),
                  rateLimitRemaining |-> NoFigure],
   interval |-> registerAutoRefresh(settings),
   onChange |-> <<>>,
   statusBar |-> NoFigure,
   lastResponse |-> NoResponse]

(***************************************************************************)
(* State.                                                                  *)
(***************************************************************************)
VARIABLES
  content,      \* vault: the text of each file
  frontmatter,  \* metadata cache: the front matter last indexed for each file
  pc,           \* where each invocation of RefreshDataCommand.execute stands
  files,        \* the files the invocation iterates over
  idx,          \* position in files
  cur,          \* locals of the current (or last) refreshFile/refreshSnapshot call
  log,          \* what each refreshFile call of the invocation did, in order
  plugin,       \* ProjectSnapshotPlugin: settings, githubAPI, the registered interval
  deleted       \* vault: the files that have been deleted

vars == <<content, frontmatter, pc, files, idx, cur, log, plugin, deleted>>

\* the timer callback runs execute(true), the command runs execute()
Tasks == {"timer", "manual"}

Silent(t) == t = "timer"

\* no call of refreshFile in progress
NoCall ==
  [file |-> "", silent |-> FALSE, repoUrl |-> <<>>, branch |-> <<>>,
   parsed |-> NoParse, fetch |-> "none", ref |-> <<>>, data |-> NullData,
   threw |-> FALSE, now |-> 0, newContent |-> <<>>, read |-> "none",
   currentContent |-> <<>>, finalContent |-> <<>>, write |-> "none",
   notices |-> <<>>, client |-> NoClient, requests |-> 0]

Init ==
  /\ content \in [Files -> InitTexts]
  /\ frontmatter = [f \in Files |-> ParseFrontMatter(content[f])]
  /\ pc = [t \in Tasks |-> "idle"]
  /\ files = [t \in Tasks |-> <<>>]
  /\ idx = [t \in Tasks |-> 1]
  /\ cur = [t \in Tasks |-> NoCall]
  /\ log = [t \in Tasks |-> <<>>]
  /\ plugin = onload(DEFAULT_SETTINGS)
  /\ deleted = {}

(***************************************************************************)
(* RefreshDataCommand                                                      *)
(***************************************************************************)
\* new Notice(text) when cond
Notify(c, cond, text) ==
  IF cond THEN [c EXCEPT !.notices = Append(@, text)] ELSE c

\* what a call of refreshFile did, without the texts
Outcome(c) ==
  [file |-> c.file, fetch |-> c.fetch, threw |-> c.threw, read |-> c.read,
   write |-> c.write]

\* the variant that calls refreshFile again for a document whose fetch failed
ReturnRetrying(t, c) ==
  /\ log' = [log EXCEPT ![t] = Append(@, Outcome(c))]
  /\ idx' = [idx EXCEPT ![t] =
               IF c.fetch \in {"404", "403", "other"} /\ Len(log[t]) < Len(files[t])
               THEN @ ELSE @ + 1]
  /\ cur' = [cur EXCEPT ![t] = c]
  /\ pc' = [pc EXCEPT ![t] = "refreshFile"]

\* refreshFile returns to its caller: the loop of refreshAllSnapshots, or execute
Return(t, c) ==
  /\ log' = [log EXCEPT ![t] = Append(@, Outcome(c))]
  /\ idx' = [idx EXCEPT ![t] = @ + 1]
  /\ cur' = [cur EXCEPT ![t] = c]
  /\ pc' = [pc EXCEPT ![t] = "refreshFile"]

\* an exception leaves refreshSnapshot, refreshFile, the loop and execute
Throw(t, c) ==
  /\ log' = [log EXCEPT ![t] = Append(@, Outcome([c EXCEPT !.threw = TRUE]))]
  /\ cur' = [cur EXCEPT ![t] =
               [NoCall EXCEPT !.file = c.file, !.silent = c.silent,
                              !.fetch = c.fetch, !.threw = TRUE]]
  /\ pc' = [pc EXCEPT ![t] = "throwing"]
  /\ UNCHANGED idx

\* refresh-data.ts:41 : the markdown files the vault holds now, in its order
getMarkdownFiles == SelectSeq(MarkdownFiles, LAMBDA f : f \notin deleted)

\* refresh-data.ts:13-38, 40-41 : execute(silent) up to the first refreshFile
execute(t) ==
  /\ pc[t] \in {"idle", "returned", "rejected"}
  /\ \/ /\ Silent(t)
        /\ files' = [files EXCEPT ![t] = getMarkdownFiles]
     \/ /\ ~Silent(t)
        /\ \E activeFile \in Files \ deleted :
             files' = [files EXCEPT ![t] = <<activeFile>>]
     \/ /\ ~Silent(t)
        /\ files' = [files EXCEPT ![t] = <<>>]
  /\ idx' = [idx EXCEPT ![t] = 1]
  /\ log' = [log EXCEPT ![t] = <<>>]
  /\ cur' = [cur EXCEPT ![t] = NoCall]
  /\ pc' = [pc EXCEPT ![t] = "refreshFile"]
  /\ UNCHANGED <<content, frontmatter, plugin, deleted>>

\* refresh-data.ts:50,58 : the document carries a truthy repo_url
IsSnapshot(fm) == fm.has /\ fm.repo_url # <<>>

\* the variant without the guards of lines 50 and 58: a document without
\* repo_url is refreshed from the default repository
refreshFileUnguarded(t) ==
  /\ pc[t] = "refreshFile"
  /\ idx[t] <= Len(files[t])
  /\ LET file == files[t][idx[t]]
         fm == frontmatter[file]
         c0 == [NoCall EXCEPT !.file = file, !.silent = Silent(t),
                              !.repoUrl = fm.repo_url, !.branch = fm.branch]
         p == parseGitHubUrl(fm.repo_url)
         parsed == IF p.ok THEN p ELSE [ok |-> TRUE, owner |-> Owner, repo |-> Repo]
     IN /\ cur' = [cur EXCEPT ![t] =
                     [c0 EXCEPT !.parsed = parsed, !.fetch = "pending",
                                !.ref = fm.branch]]
        /\ pc' = [pc EXCEPT ![t] = "fetchRepoData"]
        /\ UNCHANGED <<idx, log>>
  /\ UNCHANGED <<content, frontmatter, files, plugin, deleted>>

\* the variant in which the loop does not await refreshFile: the call for the
\* next document begins while the fetch of this one is pending
refreshFileNoAwait(t) ==
  /\ pc[t] = "refreshFile"
  /\ idx[t] <= Len(files[t])
  /\ LET file == files[t][idx[t]]
         fm == frontmatter[file]
         c0 == [NoCall EXCEPT !.file = file, !.silent = Silent(t),
                              !.repoUrl = fm.repo_url, !.branch = fm.branch]
     IN IF ~IsSnapshot(fm) \/ ~parseGitHubUrl(fm.repo_url).ok
        THEN Return(t, c0)
        ELSE /\ cur' = [cur EXCEPT ![t] =
                          [c0 EXCEPT !.parsed = parseGitHubUrl(fm.repo_url),
                                     !.fetch = "pending", !.ref = fm.branch,
                                     !.client = plugin.githubAPI.octokit,
                                     !.requests = 1]]
             /\ idx' = [idx EXCEPT ![t] = @ + 1]
             /\ pc' = [pc EXCEPT ![t] = "fetchRepoData"]
             /\ UNCHANGED log
  /\ UNCHANGED <<content, frontmatter, files, plugin, deleted>>

\* refresh-data.ts:47-72 : refreshFile and refreshSnapshot up to the fetch
refreshFile(t) ==
  /\ pc[t] = "refreshFile"
  /\ idx[t] <= Len(files[t])
  /\ LET file == files[t][idx[t]]
         fm == frontmatter[file]
         silent == Silent(t)
         c0 == [NoCall EXCEPT !.file = file, !.silent = silent,
                              !.repoUrl = fm.repo_url, !.branch = fm.branch]
         parsed == parseGitHubUrl(fm.repo_url)
     IN IF ~fm.has
        THEN Return(t, c0)
        ELSE IF ~IsSnapshot(fm)
        THEN Return(t, Notify(c0, ~silent, "Current file is not a Project Snapshot"))
        ELSE LET c1 == Notify(c0, ~silent, "Refreshing snapshot")
             IN IF ~parsed.ok
                THEN Return(t, Notify(c1, TRUE, "Invalid GitHub URL in frontmatter"))
                ELSE /\ cur' = [cur EXCEPT ![t] =
                                  [c1 EXCEPT !.parsed = parsed, !.fetch = "pending",
                                             !.ref = fm.branch,
                                             !.client = plugin.githubAPI.octokit,
                                             !.requests = 1]]
                     /\ pc' = [pc EXCEPT ![t] = "fetchRepoData"]
                     /\ UNCHANGED <<idx, log>>
  /\ UNCHANGED <<content, frontmatter, files, plugin, deleted>>

\* api.ts:339-351 : the notice fetchRepoData shows before it returns null
FetchNotice(status) ==
  IF status = "404" THEN "Repository not found. Check the URL."
  ELSE IF status = "403" THEN "Rate limit exceeded. Add a GitHub token in settings."
  ELSE "Error"

\* refresh-data.ts:74-84 : fetchRepoData settles; on data the template is
\* rendered and vault.read is called
fetchRepoDataReturns(t) ==
  /\ pc[t] = "fetchRepoData"
  /\ \E status \in FetchStatuses, stars \in StarCounts, date \in CommitDates,
        now \in Clock :
       LET c == cur[t]
           data == IF status = "ok"
                   THEN RepoData(c.parsed.owner, c.parsed.repo, stars, date)
                   ELSE NullData
           g == generate(data, DefaultSettings, now)
       IN IF data.isNull
          THEN Return(t, Notify([c EXCEPT !.fetch = status], TRUE, FetchNotice(status)))
          ELSE IF g.threw
          THEN Throw(t, [c EXCEPT !.fetch = status, !.data = data, !.now = now])
          ELSE /\ cur' = [cur EXCEPT ![t] =
                            [c EXCEPT !.fetch = status, !.data = data, !.now = now,
                                      !.newContent = g.text, !.read = "pending"]]
               /\ pc' = [pc EXCEPT ![t] = "read"]
               /\ UNCHANGED <<idx, log>>
  /\ UNCHANGED <<content, frontmatter, files, plugin, deleted>>

\* refresh-data.ts:84-103 : vault.read settles; the merge is computed and
\* vault.modify is called.  A rejected read goes to the catch (105-107); the
\* read of a file that is no longer in the vault is rejected
readReturns(t) ==
  /\ pc[t] = "read"
  /\ LET c == cur[t]
     IN \/ LET currentContent == content[c.file]
               finalContent == FinalContent(currentContent, c.newContent)
           IN /\ c.file \notin deleted
              /\ cur' = [cur EXCEPT ![t] =
                           [c EXCEPT !.read = "ok", !.currentContent = currentContent,
                                     !.finalContent = finalContent,
                                     !.write = "pending"]]
              /\ pc' = [pc EXCEPT ![t] = "modify"]
              /\ UNCHANGED <<idx, log>>
        \/ Return(t, Notify([c EXCEPT !.read = "rejected"], ~c.silent,
                            "Failed to update file"))
  /\ UNCHANGED <<content, frontmatter, files, plugin, deleted>>

\* the variant without the catch of line 105: a rejected write propagates
modifyReturnsNoCatch(t) ==
  /\ pc[t] = "modify"
  /\ LET c == cur[t]
     IN \/ /\ content' = [content EXCEPT ![c.file] = c.finalContent]
           /\ Return(t, Notify([c EXCEPT !.write = "ok"], ~c.silent, "Updated snapshot"))
        \/ /\ UNCHANGED content
           /\ Throw(t, [c EXCEPT !.write = "rejected"])
  /\ UNCHANGED <<frontmatter, files, plugin, deleted>>

\* the variant in which a silent refresh reports success without writing
modifyReturnsSilentSkips(t) ==
  /\ pc[t] = "modify"
  /\ LET c == cur[t]
     IN \/ /\ content' = IF c.silent THEN content
                          ELSE [content EXCEPT ![c.file] = c.finalContent]
           /\ Return(t, Notify([c EXCEPT !.write = "ok"], ~c.silent, "Updated snapshot"))
        \/ /\ UNCHANGED content
           /\ Return(t, Notify([c EXCEPT !.write = "rejected"], ~c.silent,
                               "Failed to update file"))
  /\ UNCHANGED <<frontmatter, files, plugin, deleted>>

\* the variant in which the write replaces the generated region in place and
\* keeps whatever follows the marker in the document as it is now
modifyReturnsInPlace(t) ==
  /\ pc[t] = "modify"
  /\ LET c == cur[t]
     IN \/ /\ content' = [content EXCEPT ![c.file] = FinalContent(@, c.newContent)]
           /\ Return(t, Notify([c EXCEPT !.write = "ok"], ~c.silent, "Updated snapshot"))
        \/ /\ UNCHANGED content
           /\ Return(t, Notify([c EXCEPT !.write = "rejected"], ~c.silent,
                               "Failed to update file"))
  /\ UNCHANGED <<frontmatter, files, plugin, deleted>>

\* refresh-data.ts:103-107 : vault.modify settles.  For a file deleted since
\* the read the vault either rejects the write or writes the file anew
modifyReturns(t) ==
  /\ pc[t] = "modify"
  /\ LET c == cur[t]
     IN \/ /\ content' = [content EXCEPT ![c.file] = c.finalContent]
           /\ deleted' = deleted \ {c.file}
           /\ Return(t, Notify([c EXCEPT !.write = "ok"], ~c.silent, "Updated snapshot"))
        \/ /\ UNCHANGED <<content, deleted>>
           /\ Return(t, Notify([c EXCEPT !.write = "rejected"], ~c.silent,
                               "Failed to update file"))
  /\ UNCHANGED <<frontmatter, files, plugin>>

\* the locals of an invocation are gone once its promise has settled
Settle(t, how) ==
  /\ pc' = [pc EXCEPT ![t] = how]
  /\ cur' = [cur EXCEPT ![t] = NoCall]
  /\ log' = [log EXCEPT ![t] = <<>>]
  /\ files' = [files EXCEPT ![t] = <<>>]
  /\ idx' = [idx EXCEPT ![t] = 1]
  /\ UNCHANGED <<content, frontmatter, plugin, deleted>>

\* refresh-data.ts:36,42-45 : the loop is over and execute's promise resolves
executeReturns(t) ==
  /\ pc[t] = "refreshFile"
  /\ idx[t] > Len(files[t])
  /\ Settle(t, "returned")

\* refresh-data.ts:31,35,43,60 : nothing between generate and the caller of
\* execute catches, so execute's promise rejects
executeRejects(t) ==
  /\ pc[t] = "throwing"
  /\ Settle(t, "rejected")

\* what the metadata cache holds for a file once it has caught up with the vault
Indexed(f) == IF f \in deleted THEN NoFrontMatter ELSE ParseFrontMatter(content[f])

\* the metadata cache indexes a file again after its text changed, or drops
\* its entry after the file was deleted
metadataCacheChanged(f) ==
  /\ frontmatter[f] # Indexed(f)
  /\ frontmatter' = [frontmatter EXCEPT ![f] = Indexed(f)]
  /\ UNCHANGED <<content, pc, files, idx, cur, log, plugin, deleted>>

\* no invocation of execute is in flight
Quiescent == \A t \in Tasks : pc[t] \in {"idle", "returned", "rejected"}

\* the timer ticks, or the user runs the command, while no refresh is in flight
start(t) ==
  /\ Quiescent
  /\ Silent(t) => plugin.interval > 0
  /\ execute(t)

Next ==
  \/ \E t \in Tasks : start(t)
  \/ \E t \in Tasks : refreshFile(t)
  \/ \E t \in Tasks : fetchRepoDataReturns(t)
  \/ \E t \in Tasks : readReturns(t)
  \/ \E t \in Tasks : modifyReturns(t)
  \/ \E t \in Tasks : executeReturns(t)
  \/ \E t \in Tasks : executeRejects(t)
  \/ \E f \in Files : metadataCacheChanged(f)

Spec == Init /\ [][Next]_vars

(***************************************************************************)
(* Vocabulary of the properties.                                           *)
(***************************************************************************)
HasMarker(text) == IndexOf(text, <<marker>>) # 0

\* all text after the first occurrence of the marker
AfterFirstMarker(text) ==
  SubSeq(text, IndexOf(text, <<marker>>) + 1, Len(text))

EndsWith(text, suffix) ==
  /\ Len(suffix) <= Len(text)
  /\ SubSeq(text, Len(text) - Len(suffix) + 1, Len(text)) = suffix

\* the call of refreshFile by t has just returned or thrown
CallEnded(t) == pc[t] \in {"refreshFile", "throwing"} /\ cur[t].file # ""

\* the call of refreshFile by t has just written its document
Wrote(t) == CallEnded(t) /\ cur[t].write = "ok"

FetchFailures == FetchStatuses \ {"ok"}

(***************************************************************************)
(* C1: a successful refresh of a text that contains the marker, once or    *)
(* several times, writes a document that ends with all the text that       *)
(* followed the first marker.                                              *)
(***************************************************************************)
C1_EndsWithPreserved ==
  \A t \in Tasks :
    Wrote(t) /\ HasMarker(cur[t].currentContent)
      => EndsWith(content[cur[t].file], AfterFirstMarker(cur[t].currentContent))

(***************************************************************************)
(* C3: every document written by a successful refresh contains the marker, *)
(* so that the next refresh finds it.                                      *)
(***************************************************************************)
C3_WrittenHasMarker ==
  \A t \in Tasks : Wrote(t) => HasMarker(content[cur[t].file])

(***************************************************************************)
(* C4: a successful refresh of a text without the marker writes exactly    *)
(* the rendered snapshot: nothing of the old text, nothing appended.       *)
(***************************************************************************)
C4_NoMarkerWritesRender ==
  \A t \in Tasks :
    Wrote(t) /\ ~HasMarker(cur[t].currentContent)
      => /\ content[cur[t].file] = cur[t].newContent
         /\ cur[t].newContent
              = generate(cur[t].data, DefaultSettings, cur[t].now).text

\* a document without marker but with user prose has been refreshed
C4_Witness ==
  \E t \in Tasks :
    /\ Wrote(t)
    /\ ~HasMarker(cur[t].currentContent)
    /\ \E i \in 1..Len(cur[t].currentContent) :
         cur[t].currentContent[i] = "my thoughts"

(***************************************************************************)
(* C5: a refresh of a document without repo_url (or without front matter)  *)
(* issues no remote request and no write, and leaves every text as it was. *)
(***************************************************************************)
NoRepoUrl(f) == ~frontmatter[f].has \/ frontmatter[f].repo_url = <<>>

C5_NoRepoUrlNoEffect ==
  /\ [](\A t \in Tasks :
          pc[t] \in {"fetchRepoData", "read", "modify"} => cur[t].repoUrl # <<>>)
  /\ [][\A t \in Tasks :
          ( /\ pc[t] = "refreshFile"
            /\ idx[t] <= Len(files[t])
            /\ NoRepoUrl(files[t][idx[t]])
            /\ <<pc[t], idx[t]>>' # <<pc[t], idx[t]>> )
          => /\ content' = content
             /\ pc'[t] = "refreshFile"
             /\ idx'[t] = idx[t] + 1
             /\ cur'[t].fetch = "none"
             /\ cur'[t].read = "none"
             /\ cur'[t].write = "none"]_vars

\* a background cycle has been through refreshFile with a document that has
\* front matter but no repo_url, and every text is still an initial one
C5_Witness ==
  /\ CallEnded("timer")
  /\ cur["timer"].repoUrl = <<>>
  /\ cur["timer"].fetch = "none"
  /\ frontmatter[cur["timer"].file].has
  /\ content[cur["timer"].file] \in InitTexts

(***************************************************************************)
(* C6: a background cycle attempts every document of the vault exactly     *)
(* once, whatever fails while one of them is processed.                    *)
(***************************************************************************)
\* the invocation is over: the loop ran out, or an exception left it
CycleOver(t) ==
  \/ pc[t] = "throwing"
  \/ pc[t] = "refreshFile" /\ idx[t] > Len(files[t])

Attempted(t) == [i \in 1..Len(log[t]) |-> log[t][i].file]

C6_EveryDocumentAttempted ==
  \A t \in Tasks : Silent(t) /\ CycleOver(t) => Attempted(t) = files[t]

(***************************************************************************)
(* C7: in a background cycle a document whose fetch failed is not written, *)
(* and every other document of that cycle whose fetch succeeded is updated *)
(* (unless the store itself rejected the read or the write).               *)
(***************************************************************************)
C7_FailedFetchOthersUpdated ==
  \A t \in Tasks :
    Silent(t) /\ CycleOver(t) =>
      \A i \in 1..Len(log[t]) :
        /\ log[t][i].fetch \in FetchFailures
             => log[t][i].read = "none" /\ log[t][i].write = "none"
        /\ ( /\ \E j \in 1..Len(log[t]) : j # i /\ log[t][j].fetch \in FetchFailures
             /\ log[t][i].fetch = "ok"
             /\ log[t][i].read # "rejected"
             /\ log[t][i].write # "rejected" )
             => log[t][i].write = "ok"

(***************************************************************************)
(* C8 as stated: refreshAll hands back one outcome per document.           *)
(***************************************************************************)
\* refresh-data.ts:13,40,47,67 : execute, refreshAllSnapshots, refreshFile and
\* refreshSnapshot have no return statement with a value: nothing is handed back
ReturnedOutcomes(t) == <<>>

\* the loop of the invocation ran out
LoopOver(t) == pc[t] = "refreshFile" /\ idx[t] > Len(files[t])

C9_OneWriteRejectedHarmless ==
  /\ [][\A t \in Tasks :
          (pc[t] = "modify" /\ pc'[t] # "modify")
          => /\ pc'[t] = "refreshFile"
             /\ idx'[t] = idx[t] + 1
             /\ \/ /\ cur'[t].write = "ok"
                   /\ content' = [content EXCEPT ![cur[t].file] = cur[t].finalContent]
                \/ /\ cur'[t].write = "rejected"
                   /\ content' = content]_vars
  /\ [][\A t \in Tasks :
          (pc'[t] = "modify" /\ pc[t] # "modify")
          => pc[t] = "read" /\ cur[t].write = "none"]_vars
  /\ [][\A f \in Files :
          content'[f] # content[f]
          => \E t \in Tasks : pc[t] = "modify" /\ cur[t].file = f]_vars

\* a write that would have changed the document was rejected
C9_Witness ==
  \E t \in Tasks :
    /\ CallEnded(t)
    /\ pc[t] = "refreshFile"
    /\ cur[t].write = "rejected"
    /\ cur[t].finalContent # cur[t].currentContent
    /\ content[cur[t].file] = cur[t].currentContent

(***************************************************************************)
(* C2: from a document with the marker followed by preserved text, any     *)
(* number of successful refreshes leaves the preserved text at the end.    *)
(***************************************************************************)
KeptNotes == <<"my thoughts">>

\* every file is a snapshot whose marker is followed by KeptNotes
InitRepeat ==
  /\ Init
  /\ \A f \in Files :
       content[f] \in {h \o <<marker>> \o KeptNotes : h \in {SnapshotHead, CloneUrlHead}}

SpecRepeat == InitRepeat /\ [][Next]_vars

C2_PreservedAfterEveryRefresh ==
  \A f \in Files : EndsWith(content[f], KeptNotes)

(***************************************************************************)
(* C10: twin documents, one refreshed by the background cycle (silent) and *)
(* one by hand (not silent), with the same answers of the remote and of    *)
(* the store, end in the same state.                                       *)
(***************************************************************************)
\* both files hold the same text
InitTwin == Init /\ content["Alpha.md"] = content["Beta.md"]

twinStart(t) == pc[t] = "idle" /\ execute(t)

twinRefreshFile(t) == idx[t] = 1 /\ refreshFile(t)

\* the first refreshFile call of a background cycle and a manual refresh,
\* in any interleaving
NextTwin ==
  \/ \E t \in Tasks : twinStart(t)
  \/ \E t \in Tasks : twinRefreshFile(t)
  \/ \E t \in Tasks : fetchRepoDataReturns(t)
  \/ \E t \in Tasks : readReturns(t)
  \/ \E t \in Tasks : modifyReturns(t)

SpecTwin == InitTwin /\ [][NextTwin]_vars

\* the cycle has finished Alpha.md and the manual refresh has finished Beta.md
TwinDone ==
  /\ CallEnded("timer") /\ cur["timer"].file = "Alpha.md"
  /\ CallEnded("manual") /\ cur["manual"].file = "Beta.md"

\* the remote and the store answered both calls alike
SameAnswers ==
  LET a == cur["timer"]
      b == cur["manual"]
  IN /\ a.fetch = b.fetch
     /\ a.data = b.data
     /\ a.now = b.now
     /\ a.read = b.read
     /\ a.write = b.write

C10_SilentSameFinalState ==
  (TwinDone /\ SameAnswers)
    => /\ content["Alpha.md"] = content["Beta.md"]
       /\ cur["timer"].finalContent = cur["manual"].finalContent
       /\ cur["timer"].threw = cur["manual"].threw
       /\ pc["timer"] = pc["manual"]

\* both twins were written, and the write changed them
C10_Witness ==
  /\ TwinDone
  /\ SameAnswers
  /\ cur["timer"].write = "ok"
  /\ cur["timer"].silent /\ ~cur["manual"].silent
  /\ content["Alpha.md"] # cur["timer"].currentContent

(***************************************************************************)
(* C11: a background (silent) refresh shows no notice for any document,    *)
(* whatever the outcome of its refresh.                                    *)
(***************************************************************************)
C11_SilentCycleNoNotices ==
  \A t \in Tasks : cur[t].silent => cur[t].notices = <<>>

(***************************************************************************)
(* SwitchBranchCommand and the branch key of a snapshot.                   *)
(***************************************************************************)
\* the branch names getBranches offers
Branches == {<<"dev">>}

\* switch-branch.ts:49-51 : processFrontMatter sets frontmatter['branch'] and
\* writes the document back: an existing key keeps its line, a new key goes to
\* the end of the block
SetBranch(text, branch) ==
  LET c == ClosingFence(text)
      k == IndexOf(SubSeq(text, 1, c - 1), <<"branch: ">>)
      e == k + IndexOf(SubSeq(text, k + 1, Len(text)), <<NL>>)
  IN IF c = 0 THEN text
     ELSE IF k = 0
     THEN SubSeq(text, 1, c - 1) \o <<"branch: ">> \o branch \o <<NL>>
          \o SubSeq(text, c, Len(text))
     ELSE SubSeq(text, 1, k) \o branch \o SubSeq(text, e, Len(text))

\* switch-branch.ts:13-61 : the user picks a branch for the snapshot that was
\* active when the command began; updateBranch stores it in that file and
\* runs RefreshDataCommand.execute(), which asks for the active file again
\* (refresh-data.ts:34-36): the same file, another one, or none.  A rejection
\* of processFrontMatter is caught and nothing else happens
updateBranch(f, branch) ==
  /\ Quiescent
  /\ IsSnapshot(frontmatter[f])
  /\ parseGitHubUrl(frontmatter[f].repo_url).ok
  /\ \/ /\ content' = [content EXCEPT ![f] = SetBranch(@, branch)]
        /\ \/ \E activeFile \in Files \ deleted :
                files' = [files EXCEPT !["manual"] = <<activeFile>>]
           \/ files' = [files EXCEPT !["manual"] = <<>>]
        /\ idx' = [idx EXCEPT !["manual"] = 1]
        /\ log' = [log EXCEPT !["manual"] = <<>>]
        /\ cur' = [cur EXCEPT !["manual"] = NoCall]
        /\ pc' = [pc EXCEPT !["manual"] = "refreshFile"]
        /\ UNCHANGED <<frontmatter, plugin, deleted>>
     \/ UNCHANGED vars

\* both files are snapshots of the default branch with notes after the marker
InitBranch ==
  /\ Init
  /\ \A f \in Files : content[f] = SnapshotHead \o <<marker, "my thoughts">>

\* the user switches branches and refreshes the active file by hand
NextBranch ==
  \/ \E f \in Files, b \in Branches : updateBranch(f, b)
  \/ start("manual")
  \/ refreshFile("manual")
  \/ fetchRepoDataReturns("manual")
  \/ readReturns("manual")
  \/ modifyReturns("manual")
  \/ executeReturns("manual")
  \/ executeRejects("manual")
  \/ \E f \in Files : metadataCacheChanged(f)

SpecBranch == InitBranch /\ [][NextBranch]_vars

(***************************************************************************)
(* C12: a successful refresh of a document that carries a branch writes a  *)
(* document that still carries that branch, so that the next refresh       *)
(* fetches with it again.                                                  *)
(***************************************************************************)
C12_RefreshKeepsBranch ==
  \A t \in Tasks :
    Wrote(t) /\ cur[t].branch # <<>>
      => ParseFrontMatter(content[cur[t].file]).branch = cur[t].branch

(***************************************************************************)
(* The token setting and the requests of fetchRepoData.                    *)
(***************************************************************************)
\* the tokens the user may type into the settings tab
Tokens == {"", "ghp_a"}

\* the number of settings-tab handlers that may await saveSettings at once
MaxHandlers == 1

\* api.ts:44-55 : setToken replaces the client object of the GitHubAPI
setToken(p, token) == [p EXCEPT !.githubAPI.octokit = Octokit(token)]

\* settings.ts:52-54 : onChange of the token field stores the value and calls
\* saveSettings, which awaits saveData (part_004:175)
tokenChanged(value) ==
  /\ Len(plugin.onChange) < MaxHandlers
  /\ plugin' = [plugin EXCEPT !.settings.githubToken = value,
                              !.onChange = Append(@, [value |-> value,
                                                      at |-> "saveData"])]
  /\ UNCHANGED <<content, frontmatter, pc, files, idx, cur, log, deleted>>

\* part_004:175-178 : saveData resolves and saveSettings hands the token the
\* settings hold now to setToken
saveDataReturns(i) ==
  /\ i \in 1..Len(plugin.onChange)
  /\ plugin.onChange[i].at = "saveData"
  /\ plugin' = [setToken(plugin, plugin.settings.githubToken)
                  EXCEPT !.onChange[i].at = "setToken"]
  /\ UNCHANGED <<content, frontmatter, pc, files, idx, cur, log, deleted>>

\* settings.ts:55 : the handler resumes after saveSettings and calls setToken
\* with the value it was called with
saveSettingsReturns(i) ==
  /\ i \in 1..Len(plugin.onChange)
  /\ plugin.onChange[i].at = "setToken"
  /\ plugin' = [setToken(plugin, plugin.onChange[i].value)
                  EXCEPT !.onChange = SubSeq(@, 1, i - 1) \o SubSeq(@, i + 1, Len(@))]
  /\ UNCHANGED <<content, frontmatter, pc, files, idx, cur, log, deleted>>

\* the variant of nextRequest in which fetchRepoData keeps the client of its
\* first request for the requests that follow
nextRequestSameClient(t) ==
  /\ pc[t] = "fetchRepoData"
  /\ cur[t].requests < 3
  /\ cur' = [cur EXCEPT ![t].requests = @ + 1]
  /\ UNCHANGED <<content, frontmatter, pc, files, idx, log, plugin, deleted>>

\* api.ts:286-313 : repos.get, then listCommits, then getReadme: a response
\* arrives and the next request is issued through this.octokit as it is now
nextRequest(t) ==
  /\ pc[t] = "fetchRepoData"
  /\ cur[t].requests < 3
  /\ cur' = [cur EXCEPT ![t].requests = @ + 1,
                        ![t].client = plugin.githubAPI.octokit]
  /\ UNCHANGED <<content, frontmatter, pc, files, idx, log, plugin, deleted>>

\* api.ts:283-352 : fetchRepoData returns data only after its third request
fetchRepoDataSettles(t) ==
  /\ fetchRepoDataReturns(t)
  /\ cur'[t].fetch = "ok" => cur[t].requests = 3

\* both files are snapshots with notes after the marker
InitToken ==
  /\ Init
  /\ \A f \in Files : content[f] = SnapshotHead \o <<marker, "my thoughts">>

tokenStart(t) == pc[t] = "idle" /\ execute(t)

\* a background cycle and a manual refresh, each run once and followed up to
\* the return of fetchRepoData, while the user edits the token
NextToken ==
  \/ \E value \in Tokens : tokenChanged(value)
  \/ \E i \in 1..MaxHandlers : saveDataReturns(i)
  \/ \E i \in 1..MaxHandlers : saveSettingsReturns(i)
  \/ \E t \in Tasks : tokenStart(t)
  \/ \E t \in Tasks : refreshFile(t)
  \/ \E t \in Tasks : nextRequest(t)
  \/ \E t \in Tasks : fetchRepoDataSettles(t)

SpecToken == InitToken /\ [][NextToken]_vars

\* a request of t is in flight
InFlight(t) == pc[t] = "fetchRepoData"

(***************************************************************************)
(* C13: a request in flight keeps the client it was issued with whatever   *)
(* happens to the token meanwhile, and every request is issued with the    *)
(* client the last setToken installed.                                     *)
(***************************************************************************)
C13_RequestsKeepClientNewUseNew ==
  /\ [][\A t \in Tasks :
          (InFlight(t) /\ InFlight(t)' /\ cur'[t].requests = cur[t].requests)
          => cur'[t].client = cur[t].client]_vars
  /\ [][\A t \in Tasks :
          (InFlight(t)' /\ (~InFlight(t) \/ cur'[t].requests # cur[t].requests))
          => /\ cur'[t].client = plugin.githubAPI.octokit
             /\ plugin' = plugin]_vars

\* one request is still in flight with the client of the old token while
\* another one was issued with the client of the new token
C13_Witness ==
  \E t, u \in Tasks :
    /\ InFlight(t) /\ cur[t].client = Octokit("")
    /\ InFlight(u) /\ cur[u].client = Octokit("ghp_a")
    /\ plugin.githubAPI.octokit = Octokit("ghp_a")

(***************************************************************************)
(* The auto-refresh interval.                                              *)
(***************************************************************************)
\* the values the interval field may be set to: parseInt(value) || 0
Intervals == {0, 60}

\* settings.ts:76-79 with part_004:174-184 : onChange of the interval field
\* stores the value and calls saveSettings, which saves, hands the stored
\* token to setToken and leaves the registered interval alone
intervalChanged(value) ==
  /\ plugin.settings.autoRefreshInterval # value
  /\ plugin' = setToken([plugin EXCEPT !.settings.autoRefreshInterval = value],
                        plugin.settings.githubToken)
  /\ UNCHANGED <<content, frontmatter, pc, files, idx, cur, log, deleted>>

\* the plugin is disabled and enabled again (or Obsidian restarts): the
\* registered interval is cleared and onload runs with the saved settings
reload ==
  /\ Quiescent
  /\ plugin' = onload(plugin.settings)
  /\ UNCHANGED <<content, frontmatter, pc, files, idx, cur, log, deleted>>

\* background cycles while the user edits the interval and reloads the plugin
NextTimer ==
  \/ \E value \in Intervals : intervalChanged(value)
  \/ reload
  \/ start("timer")
  \/ refreshFile("timer")
  \/ fetchRepoDataReturns("timer")
  \/ readReturns("timer")
  \/ modifyReturns("timer")
  \/ executeReturns("timer")
  \/ executeRejects("timer")

SpecTimer == InitToken /\ [][NextTimer]_vars

\* a background cycle starts in this step
TimerCycleStarts ==
  /\ pc["timer"] \in {"idle", "returned", "rejected"}
  /\ pc'["timer"] = "refreshFile"

(***************************************************************************)
(* C14: no background cycle starts while the configured auto-refresh      *)
(* interval is 0, whether the plugin was loaded with 0 or the setting was  *)
(* changed to 0 while it runs.                                             *)
(***************************************************************************)
C14_NoCycleWhileIntervalZero ==
  [][TimerCycleStarts => plugin.settings.autoRefreshInterval # 0]_vars

(***************************************************************************)
(* C15: within one invocation the refreshFile calls follow each other: a   *)
(* call is under way only when every earlier document of the list has its  *)
(* outcome, the next call begins only then, and no document of the list is *)
(* under way twice.                                                        *)
(***************************************************************************)
\* a refreshFile call of t is waiting for the remote or for the vault
UnderWay(t) == pc[t] \in {"fetchRepoData", "read", "modify"}

C15_OneRefreshUnderWayPerCycle ==
  \A t \in Tasks :
    /\ pc[t] \in {"refreshFile", "fetchRepoData", "read", "modify"}
         => idx[t] = Len(log[t]) + 1
    /\ UnderWay(t)
         => /\ idx[t] <= Len(files[t])
            /\ cur[t].file = files[t][idx[t]]
            /\ \A i \in 1..Len(log[t]) : log[t][i].file # cur[t].file

\* the background cycle has written Alpha.md and waits for the fetch of Beta.md
C15_Witness ==
  /\ pc["timer"] = "fetchRepoData"
  /\ cur["timer"].file = "Beta.md"
  /\ Len(log["timer"]) = 1
  /\ log["timer"][1].write = "ok"

(***************************************************************************)
(* Overlapping invocations.                                                *)
(***************************************************************************)
\* part_004:43-46, 160-162 : nothing keeps the timer and the command from
\* running execute while another invocation is in flight
overlapStart(t) ==
  /\ pc[t] = "idle"
  /\ Silent(t) => plugin.interval > 0
  /\ execute(t)

\* a background cycle and a manual refresh, each run once, in any interleaving
NextOverlap ==
  \/ \E t \in Tasks : overlapStart(t)
  \/ \E t \in Tasks : refreshFile(t)
  \/ \E t \in Tasks : fetchRepoDataReturns(t)
  \/ \E t \in Tasks : readReturns(t)
  \/ \E t \in Tasks : modifyReturns(t)

SpecOverlap == InitToken /\ [][NextOverlap]_vars

(***************************************************************************)
(* C16: when invocations overlap, every change of a document replaces its  *)
(* whole text by the merged text of the invocation that writes: the        *)
(* snapshot rendered from its own fetch, followed by what its own read     *)
(* found after the marker.                                                 *)
(***************************************************************************)
C16_LastWriterWinsWhole ==
  [][\A f \in Files :
       content'[f] # content[f]
       => \E t \in Tasks :
            /\ pc[t] = "modify" /\ cur[t].file = f /\ pc'[t] # "modify"
            /\ content'[f] = cur[t].finalContent
            /\ cur[t].finalContent
                 = FinalContent(cur[t].currentContent,
                                generate(cur[t].data, DefaultSettings, cur[t].now).text)]_vars

\* the manual refresh read the document before the background cycle wrote it
\* and wrote it afterwards: the document holds the manual refresh's text
C16_Witness ==
  \E f \in Files :
    /\ Wrote("manual") /\ cur["manual"].file = f
    /\ cur["manual"].currentContent \in InitTexts
    /\ \E i \in 1..Len(log["timer"]) :
         /\ log["timer"][i].file = f
         /\ log["timer"][i].write = "ok"
    /\ cur["timer"].data # cur["manual"].data
    /\ content[f] = cur["manual"].finalContent

(***************************************************************************)
(* Deletion of a document while it is refreshed.                           *)
(***************************************************************************)
\* the user deletes a file of the vault
vaultDelete(f) ==
  /\ f \notin deleted
  /\ deleted' = deleted \cup {f}
  /\ UNCHANGED <<content, frontmatter, pc, files, idx, cur, log, plugin>>

\* the file is deleted while the background cycle waits for its fetch
deleteDuringFetch(f) ==
  /\ pc["timer"] = "fetchRepoData"
  /\ cur["timer"].file = f
  /\ vaultDelete(f)

\* background cycles in which documents are deleted during their fetch
NextDelete ==
  \/ \E f \in Files : deleteDuringFetch(f)
  \/ start("timer")
  \/ refreshFile("timer")
  \/ fetchRepoDataReturns("timer")
  \/ readReturns("timer")
  \/ modifyReturns("timer")
  \/ executeReturns("timer")
  \/ executeRejects("timer")
  \/ \E f \in Files : metadataCacheChanged(f)

SpecDelete == InitToken /\ [][NextDelete]_vars

(***************************************************************************)
(* C17: when a document is deleted during its fetch the refresh goes on:   *)
(* after a successful fetch the read is attempted and its rejection is     *)
(* absorbed, nothing is written, the document stays deleted, and the       *)
(* background cycle goes on to attempt all its documents.                  *)
(***************************************************************************)
C17_DeletedDuringFetchHarmless ==
  \A i \in 1..Len(log["timer"]) :
    log["timer"][i].file \in deleted
      => /\ log["timer"][i].write = "none"
         /\ log["timer"][i].fetch = "ok" => log["timer"][i].read = "rejected"
         /\ CycleOver("timer") => Attempted("timer") = files["timer"]

(***************************************************************************)
(* The repo_url values the parser meets.                                   *)
(***************************************************************************)
\* the pieces names are built from: a letter, a digit, '-', '_', '.', and the
\* ending of a GitHub Pages repository
NameParts ==
  {<<"w">>, <<"7">>, <<"-">>, <<"_">>, <<".">>,
   <<".","g","i","t","h","u","b",".","i","o">>}

\* the number of pieces in a repository name
MaxParts == 2

RECURSIVE NamesUpTo(_)
NamesUpTo(n) ==
  IF n = 0 THEN {<<>>}
  ELSE NamesUpTo(n - 1) \cup {a \o p : a \in NamesUpTo(n - 1), p \in NameParts}

\* repository names and owner names
ParseRepos == NamesUpTo(MaxParts) \ {<<>>}
ParseOwners == {<<"o">>, <<"o","-","7">>, <<"o",".","g","i","t">>}

\* what may follow the canonical URL: nothing, '.git', a path, a slash
UrlSuffixes == {<<>>, DotGit, <<"/","i","s","s","u","e","s","/","1">>, <<"/">>}

\* strings that hold no owner/repo pair: free text, another host, the host
\* alone, an owner without repository, an empty owner, the ssh form
NoPairUrls ==
  {<<"n","o","t","-","a","-","u","r","l">>,
   <<"h","t","t","p","s",":","/","/","g","i","t","l","a","b",".","c","o","m","/","o","/","w">>,
   HostPrefix,
   HostPrefix \o <<"o">>,
   HostPrefix \o <<"o","/">>,
   HostPrefix \o <<"/","w">>,
   <<"g","i","t","@","g","i","t","h","u","b",".","c","o","m",":","o","/","w",".","g","i","t">>}

ParseUrls ==
  {CanonicalUrl(o, r) \o s : o \in ParseOwners, r \in ParseRepos, s \in UrlSuffixes}
  \cup NoPairUrls

\* Alpha.md stores any of the URLs, Beta.md is a plain snapshot
InitParse ==
  /\ \E url \in ParseUrls :
       content = [f \in Files |->
                    IF f = "Alpha.md"
                    THEN FrontMatterText(url, <<>>) \o <<marker, "my thoughts">>
                    ELSE SnapshotHead \o <<marker, "my thoughts">>]
  /\ frontmatter = [f \in Files |-> ParseFrontMatter(content[f])]
  /\ pc = [t \in Tasks |-> "idle"]
  /\ files = [t \in Tasks |-> <<>>]
  /\ idx = [t \in Tasks |-> 1]
  /\ cur = [t \in Tasks |-> NoCall]
  /\ log = [t \in Tasks |-> <<>>]
  /\ plugin = onload(DEFAULT_SETTINGS)
  /\ deleted = {}

\* one manual refresh of either document
NextParse ==
  \/ tokenStart("manual")
  \/ refreshFile("manual")
  \/ fetchRepoDataReturns("manual")
  \/ readReturns("manual")
  \/ modifyReturns("manual")

SpecParse == InitParse /\ [][NextParse]_vars

\* refreshSnapshot has been called with a repo_url and has parsed it
Parsed(t) == cur[t].file # "" /\ cur[t].repoUrl # <<>>

(***************************************************************************)
(* C18: parsing the canonical URL of (owner, name) returns (owner, name).  *)
(***************************************************************************)
C18_CanonicalRoundTrip ==
  \A t \in Tasks, o \in ParseOwners, r \in ParseRepos :
    Parsed(t) /\ cur[t].repoUrl = CanonicalUrl(o, r)
      => cur[t].parsed = [ok |-> TRUE, owner |-> o, repo |-> r]

(***************************************************************************)
(* C19: for every stored repo_url the parser returns a pair with an owner  *)
(* or null; after null the refresh returns at once: no request, no read,   *)
(* no write, every text as it was.                                         *)
(***************************************************************************)
C19_NullParseNoEffect ==
  /\ [](\A t \in Tasks :
          /\ Parsed(t) =>
               /\ cur[t].parsed = parseGitHubUrl(cur[t].repoUrl) \/ cur[t].parsed = NoParse
               /\ cur[t].parsed.ok => cur[t].parsed.owner # <<>>
               /\ parseGitHubUrl(cur[t].repoUrl).ok
                    <=> \E i \in 1..Len(cur[t].repoUrl) : Pattern1At(cur[t].repoUrl, i)
          /\ pc[t] \in {"fetchRepoData", "read", "modify"}
               => cur[t].parsed.ok /\ cur[t].parsed = parseGitHubUrl(cur[t].repoUrl))
  /\ [][\A t \in Tasks :
          ( /\ pc[t] = "refreshFile"
            /\ idx[t] <= Len(files[t])
            /\ IsSnapshot(frontmatter[files[t][idx[t]]])
            /\ ~parseGitHubUrl(frontmatter[files[t][idx[t]]].repo_url).ok
            /\ <<pc[t], idx[t]>>' # <<pc[t], idx[t]>> )
          => /\ content' = content
             /\ pc'[t] = "refreshFile"
             /\ idx'[t] = idx[t] + 1
             /\ cur'[t].fetch = "none"
             /\ cur'[t].read = "none"
             /\ cur'[t].write = "none"]_vars

\* the refresh of a document whose repo_url names the host and an owner but
\* no repository has returned
C19_Witness ==
  /\ CallEnded("manual")
  /\ cur["manual"].repoUrl = HostPrefix \o <<"o">>
  /\ ~parseGitHubUrl(cur["manual"].repoUrl).ok
  /\ cur["manual"].fetch = "none"
  /\ content[cur["manual"].file] = FrontMatterText(HostPrefix \o <<"o">>, <<>>)
                                     \o <<marker, "my thoughts">>

(***************************************************************************)
(* C20: the canonical URL followed by '.git', by a path or by '/' parses   *)
(* to the same pair as the canonical URL itself.                           *)
(***************************************************************************)
C20_SuffixSamePair ==
  \A t \in Tasks, o \in ParseOwners, r \in ParseRepos, s \in UrlSuffixes :
    Parsed(t) /\ cur[t].repoUrl = CanonicalUrl(o, r) \o s
      => /\ cur[t].parsed.ok
         /\ cur[t].parsed = parseGitHubUrl(CanonicalUrl(o, r))

(***************************************************************************)
(* The remaining call budget (x-ratelimit-remaining).                      *)
(***************************************************************************)
\* the figures a response may carry in x-ratelimit-remaining; NoFigure when
\* the header is absent
Figures == {NoFigure, <<0>>, <<41>>}

\* the responses to one request: a success, or an error status
Responses == [status : {"ok", "404", "403"}, remaining : Figures]

\* api.ts:57-67 : a parsed figure is stored and handed to onRateLimitChange,
\* which part_004:120-122 sets to write it to the status bar
updateRateLimit(p, response) ==
  IF response.remaining # NoFigure
  THEN [p EXCEPT !.githubAPI.rateLimitRemaining = response.remaining,
                 !.statusBar = response.remaining]
  ELSE p

\* api.ts:37-41, 50-54 : the hook wrapped around every request of a client.
\* For an error status `await request(options)` rejects and the line that
\* calls updateRateLimit is not reached
hook(p, response) ==
  IF response.status = "ok" THEN updateRateLimit(p, response) ELSE p

\* api.ts:283-352 : the response to the request in flight arrives.  After a
\* success of repos.get or listCommits the next request is issued through
\* this.octokit as it is now; an error of one of them goes to the catch, which
\* shows a notice and returns null; an error of getReadme is ignored.  After
\* the third request the record is returned and refreshSnapshot goes on
requestReturns(t) ==
  /\ pc[t] = "fetchRepoData"
  /\ \E response \in Responses, stars \in StarCounts, date \in CommitDates,
        now \in Clock :
       LET c == cur[t]
           data == RepoData(c.parsed.owner, c.parsed.repo, stars, date)
           g == generate(data, DefaultSettings, now)
       IN /\ plugin' = [hook(plugin, response) EXCEPT
                          !.lastResponse = [client |-> c.client,
                                            status |-> response.status,
                                            remaining |-> response.remaining]]
          /\ IF c.requests < 3 /\ response.status = "ok"
             THEN /\ cur' = [cur EXCEPT ![t].requests = @ + 1,
                                        ![t].client = plugin.githubAPI.octokit]
                  /\ UNCHANGED <<pc, idx, log>>
             ELSE IF c.requests < 3
             THEN Return(t, Notify([c EXCEPT !.fetch = response.status], TRUE,
                                   FetchNotice(response.status)))
             ELSE IF g.threw
             THEN Throw(t, [c EXCEPT !.fetch = "ok", !.data = data, !.now = now])
             ELSE /\ cur' = [cur EXCEPT ![t] =
                               [c EXCEPT !.fetch = "ok", !.data = data, !.now = now,
                                         !.newContent = g.text, !.read = "pending"]]
                  /\ pc' = [pc EXCEPT ![t] = "read"]
                  /\ UNCHANGED <<idx, log>>
  /\ UNCHANGED <<content, frontmatter, files, deleted>>

\* manual refreshes, followed up to the return of fetchRepoData, while the
\* user edits the token
NextRate ==
  \/ \E value \in Tokens : tokenChanged(value)
  \/ \E i \in 1..MaxHandlers : saveDataReturns(i)
  \/ \E i \in 1..MaxHandlers : saveSettingsReturns(i)
  \/ start("manual")
  \/ refreshFile("manual")
  \/ requestReturns("manual")
  \/ executeReturns("manual")
  \/ executeRejects("manual")

SpecRate == InitToken /\ [][NextRate]_vars

(***************************************************************************)
(* C21: when the response completed last was answered to the current       *)
(* client and carried a remaining-budget figure, be it a success or an     *)
(* error such as 403, rateLimitRemaining is that figure and the change     *)
(* callback has been called with it.                                       *)
(***************************************************************************)
C21_RemainingIsLastResponse ==
  ( /\ plugin.lastResponse.client = plugin.githubAPI.octokit
    /\ plugin.lastResponse.remaining # NoFigure )
  => /\ plugin.githubAPI.rateLimitRemaining = plugin.lastResponse.remaining
     /\ plugin.statusBar = plugin.lastResponse.remaining

(***************************************************************************)
(* The end states of one refresh.                                          *)
(***************************************************************************)
\* refresh-data.ts:103-104 : the merged text was written
Synced(c) == c.write = "ok"

\* refresh-data.ts:74-78 : fetchRepoData returned null
FetchFailed(c) == c.fetch \in FetchFailures

\* refresh-data.ts:105-107 : vault.read or vault.modify rejected
WriteFailed(c) == c.read = "rejected" \/ c.write = "rejected"

\* the call of refreshFile by t has returned in exactly one of the end states
EndedInOne(t) ==
  /\ CallEnded(t)
  /\ pc[t] = "refreshFile"
  /\ \/ Synced(cur[t]) /\ ~FetchFailed(cur[t]) /\ ~WriteFailed(cur[t])
     \/ ~Synced(cur[t]) /\ FetchFailed(cur[t]) /\ ~WriteFailed(cur[t])
     \/ ~Synced(cur[t]) /\ ~FetchFailed(cur[t]) /\ WriteFailed(cur[t])

\* background cycles, one after the other
NextLive ==
  \/ start("timer")
  \/ refreshFile("timer")
  \/ fetchRepoDataReturns("timer")
  \/ readReturns("timer")
  \/ modifyReturns("timer")
  \/ executeReturns("timer")
  \/ executeRejects("timer")
  \/ \E f \in Files : metadataCacheChanged(f)

\* the remote client and the vault answer every call that waits for them
Answered ==
  /\ WF_vars(fetchRepoDataReturns("timer"))
  /\ WF_vars(readReturns("timer"))
  /\ WF_vars(modifyReturns("timer"))

\* the promise of execute settles once the loop is over or an exception has
\* left it
Continues ==
  WF_vars(executeReturns("timer") \/ executeRejects("timer"))

SpecLive == InitRepeat /\ [][NextLive]_vars /\ Answered /\ Continues

(***************************************************************************)
(* C22: when the remote and the vault answer, every refresh that waits for *)
(* its fetch ends in exactly one of Synced, FetchFailed and WriteFailed.    *)
(***************************************************************************)
C22_StartedRefreshEnds ==
  \A t \in Tasks : (pc[t] = "fetchRepoData") ~> EndedInOne(t)

(***************************************************************************)
(* Background cycles after a refresh that failed.                          *)
(***************************************************************************)
\* the manual refresh of one document has ended FetchFailed or WriteFailed.
\* Its invocation is not settled here, so that its outcome stays in log
EarlierFailed ==
  /\ pc["manual"] = "refreshFile"
  /\ Len(log["manual"]) = 1
  /\ FetchFailed(log["manual"][1]) \/ WriteFailed(log["manual"][1])

\* part_004:160-162 : the timer ticks after that refresh, and after the
\* cycle before it is over
laterStart ==
  /\ EarlierFailed
  /\ plugin.interval > 0
  /\ execute("timer")

\* one manual refresh that fails, then background cycles
NextRetry ==
  \/ tokenStart("manual")
  \/ refreshFile("manual")
  \/ fetchRepoDataReturns("manual")
  \/ readReturns("manual")
  \/ modifyReturns("manual")
  \/ laterStart
  \/ refreshFile("timer")
  \/ fetchRepoDataReturns("timer")
  \/ readReturns("timer")
  \/ modifyReturns("timer")
  \/ executeReturns("timer")
  \/ executeRejects("timer")

SpecRetry == InitToken /\ [][NextRetry]_vars

\* the calls of the invocation of t that fetched f
Fetches(t, f) ==
  {i \in 1..Len(log[t]) : log[t][i].file = f /\ log[t][i].fetch # "none"}
  \cup (IF UnderWay(t) /\ cur[t].file = f THEN {0} ELSE {})

(***************************************************************************)
(* C23: a document whose refresh ended FetchFailed or WriteFailed is       *)
(* fetched at most once in a later background cycle, and exactly once when *)
(* that cycle is over.                                                     *)
(***************************************************************************)
C23_FailedFetchedOncePerLaterCycle ==
  EarlierFailed =>
    LET f == log["manual"][1].file
    IN /\ Cardinality(Fetches("timer", f)) <= 1
       /\ CycleOver("timer") => Cardinality(Fetches("timer", f)) = 1

(***************************************************************************)
(* Dashboard documents.                                                    *)
(***************************************************************************)
\* switch-branch.ts:156-160 : the head generateDashboard writes; no repo_url
DashboardHead ==
  <<"---", NL, "tags:", NL, "  - project-dashboard", NL, "updated: ", "5", NL,
    "---", NL>>

\* the text of a dashboard
DashboardText == DashboardHead \o <<"# Project Dashboard">>

\* view-commits.ts:178-179 : tags.includes('project-dashboard') ||
\* activeFile.name === 'Project Dashboard.md'
isDashboard(f) ==
  LET text == content[f]
      c == ClosingFence(text)
  IN \/ c # 0 /\ IndexOf(SubSeq(text, 3, c - 1), <<"  - project-dashboard">>) # 0
     \/ f = "Project Dashboard.md"

\* one file is a dashboard, the other a snapshot
InitDashboard ==
  /\ \E d \in Files, b \in Bodies :
       content = [f \in Files |->
                    IF f = d THEN DashboardText ELSE SnapshotHead \o b]
  /\ frontmatter = [f \in Files |-> ParseFrontMatter(content[f])]
  /\ pc = [t \in Tasks |-> "idle"]
  /\ files = [t \in Tasks |-> <<>>]
  /\ idx = [t \in Tasks |-> 1]
  /\ cur = [t \in Tasks |-> NoCall]
  /\ log = [t \in Tasks |-> <<>>]
  /\ plugin = onload(DEFAULT_SETTINGS)
  /\ deleted = {}

\* manual refreshes of the active file
NextDashboard ==
  \/ start("manual")
  \/ refreshFile("manual")
  \/ fetchRepoDataReturns("manual")
  \/ readReturns("manual")
  \/ modifyReturns("manual")
  \/ executeReturns("manual")
  \/ executeRejects("manual")

SpecDashboard == InitDashboard /\ [][NextDashboard]_vars

\* the notice of refresh-data.ts:63
NotASnapshot == "Current file is not a Project Snapshot"

Shown(c, text) == \E i \in 1..Len(c.notices) : c.notices[i] = text

(***************************************************************************)
(* C24: a manual refresh of a dashboard is not answered with 'not a        *)
(* project snapshot' while the document is left as it is, and a manual     *)
(* refresh of a document with repo_url that is no dashboard goes to the    *)
(* snapshot path.                                                          *)
(***************************************************************************)
C24_DashboardDispatched ==
  \A t \in Tasks :
    CallEnded(t) /\ ~cur[t].silent =>
      /\ isDashboard(cur[t].file) => ~Shown(cur[t], NotASnapshot)
      /\ ~isDashboard(cur[t].file) /\ cur[t].repoUrl # <<>>
           => cur[t].fetch # "none" \/ ~parseGitHubUrl(cur[t].repoUrl).ok

(***************************************************************************)
(* C25: rendering the record of a successful fetch, the one without a      *)
(* commit date included, raises nothing and returns a text.                *)
(***************************************************************************)
C25_RenderCompletes ==
  \A t \in Tasks :
    cur[t].fetch = "ok"
      => /\ ~cur[t].threw
         /\ pc[t] # "throwing"
         /\ pc[t] \in {"read", "modify"} => cur[t].newContent # <<>>

(***************************************************************************)
(* C26: the requests of one fetchRepoData invocation all go through the    *)
(* same client: while the invocation waits for the remote, the client of   *)
(* its request in flight never changes, setToken or not.                   *)
(***************************************************************************)
C26_OneClientPerFetch ==
  [][\A t \in Tasks :
       (InFlight(t) /\ InFlight(t)' /\ cur'[t].file = cur[t].file)
       => cur'[t].client = cur[t].client]_vars

(***************************************************************************)
(* Edits of the user while a refresh waits for the remote.                 *)
(***************************************************************************)
\* what the user may type at the end of the notes: prose, or the marker
EditAtoms == {"an edit", marker}

\* the number of edits during one fetch
MaxEdits == 2

\* the user appends to the document whose manual refresh waits for its
\* fetch, and the editor saves it to the vault
editDuringFetch(f, a) ==
  /\ pc["manual"] = "fetchRepoData"
  /\ cur["manual"].file = f
  /\ Len(content[f]) < Len(SnapshotHead) + 2 + MaxEdits
  /\ content' = [content EXCEPT ![f] = Append(@, a)]
  /\ UNCHANGED <<frontmatter, pc, files, idx, cur, log, plugin, deleted>>

\* one manual refresh of a document that is edited during the fetch
NextEdit ==
  \/ \E f \in Files, a \in EditAtoms : editDuringFetch(f, a)
  \/ tokenStart("manual")
  \/ refreshFile("manual")
  \/ fetchRepoDataReturns("manual")
  \/ readReturns("manual")
  \/ modifyReturns("manual")

SpecEdit == InitToken /\ [][NextEdit]_vars

(***************************************************************************)
(* C27: the text for the merge is read after the fetch has returned, as    *)
(* the vault holds it then, and the document the refresh writes ends with  *)
(* all that followed the marker in that text: every edit saved before the  *)
(* fetch returned is in the written document.                              *)
(***************************************************************************)
C27_EditsBeforeFetchReturnKept ==
  /\ [][\A t \in Tasks :
          (pc'[t] = "modify" /\ pc[t] # "modify")
          => /\ pc[t] = "read"
             /\ cur[t].fetch = "ok"
             /\ cur'[t].currentContent = content[cur[t].file]]_vars
  /\ [][\A t \in Tasks :
          (pc[t] = "modify" /\ cur'[t].write = "ok")
          => EndsWith(content'[cur[t].file],
                      AfterFirstMarker(cur[t].currentContent))]_vars

(***************************************************************************)
(* The refresh that switch-branch starts.                                  *)
(***************************************************************************)
\* the branch the text of a file carries in its front matter
StoredBranch(f) == ParseFrontMatter(content[f]).branch

\* the user switches the branch of one file, once
switchOnce(f, branch) ==
  /\ \A g \in Files : StoredBranch(g) = <<>>
  /\ updateBranch(f, branch)

\* one switch of a branch and the refresh it starts
NextSwitch ==
  \/ \E f \in Files, b \in Branches : switchOnce(f, b)
  \/ refreshFile("manual")
  \/ fetchRepoDataReturns("manual")
  \/ readReturns("manual")
  \/ modifyReturns("manual")
  \/ executeReturns("manual")
  \/ executeRejects("manual")
  \/ \E f \in Files : metadataCacheChanged(f)

SpecSwitch == InitBranch /\ [][NextSwitch]_vars

(***************************************************************************)
(* C28: the refresh started by switch-branch refreshes the file whose      *)
(* branch was set and fetches with that branch as ref.                     *)
(***************************************************************************)
C28_SwitchRefreshesSameFileNewBranch ==
  \A f \in Files :
    (StoredBranch(f) # <<>> /\ cur["manual"].file # "")
      => /\ cur["manual"].file = f
         /\ cur["manual"].fetch # "none" => cur["manual"].ref = StoredBranch(f)

(***************************************************************************)
(* CreateSnapshotCommand (create-from-reference and bulk import).          *)
(***************************************************************************)
\* the owners and the repository names of the repositories to import: two
\* owners have a repository of the same name
ImportOwners == {<<"o">>, <<"p">>}
ImportRepos == {<<"A","l","p","h","a">>, <<"B","e","t","a">>}

\* create-snapshot.ts:41-43 : `${repoData.repo}.md` in the default folder; the
\* owner is not part of the path
fileName(repo) ==
  IF repo = <<"A","l","p","h","a">> THEN "Alpha.md"
  ELSE IF repo = <<"B","e","t","a">> THEN "Beta.md"
  ELSE ""

\* the repository name a file of the vault stands for
RepoOf(f) == CHOOSE r \in ImportRepos : fileName(r) = f

\* the tracked document of owner/repo with the user's notes behind the marker
TrackedText(owner, repo) ==
  FrontMatterText(CanonicalUrl(owner, repo), <<>>) \o <<marker, "my thoughts">>

\* each file is absent, or the tracked document of a repository of its name
InitCreate ==
  /\ deleted \in SUBSET Files
  /\ \E owner \in [Files -> ImportOwners] :
       content = [f \in Files |->
                    IF f \in deleted THEN <<>>
                    ELSE TrackedText(owner[f], RepoOf(f))]
  /\ frontmatter = [f \in Files |-> Indexed(f)]
  /\ pc = [t \in Tasks |-> "idle"]
  /\ files = [t \in Tasks |-> <<>>]
  /\ idx = [t \in Tasks |-> 1]
  /\ cur = [t \in Tasks |-> NoCall]
  /\ log = [t \in Tasks |-> <<>>]
  /\ plugin = onload(DEFAULT_SETTINGS)

\* create-snapshot.ts:21-31 : createSnapshot(url) up to the fetch; bulk import
\* (bulk-import.ts:25-28) awaits one createSnapshot after the other
createSnapshot(owner, repo) ==
  /\ pc["manual"] \in {"idle", "returned", "rejected"}
  /\ LET url == CanonicalUrl(owner, repo)
         parsed == parseGitHubUrl(url)
         c0 == [NoCall EXCEPT !.repoUrl = url]
     IN IF ~parsed.ok
        THEN /\ cur' = [cur EXCEPT !["manual"] = Notify(c0, TRUE, "Invalid GitHub URL")]
             /\ pc' = [pc EXCEPT !["manual"] = "returned"]
        ELSE /\ cur' = [cur EXCEPT !["manual"] =
                          [Notify(c0, TRUE, "Fetching repository data...")
                             EXCEPT !.parsed = parsed, !.fetch = "pending",
                                    !.client = plugin.githubAPI.octokit,
                                    !.requests = 1]]
             /\ pc' = [pc EXCEPT !["manual"] = "createFetch"]
  /\ UNCHANGED <<content, frontmatter, files, idx, log, plugin, deleted>>

\* create-snapshot.ts:31-60 : fetchRepoData settles; on data the note is
\* rendered (outside the try), the path is looked up and vault.modify or
\* vault.create is called
createFetchReturns ==
  /\ pc["manual"] = "createFetch"
  /\ \E status \in FetchStatuses, stars \in StarCounts, date \in CommitDates,
        now \in Clock :
       LET c == cur["manual"]
           data == IF status = "ok"
                   THEN RepoData(c.parsed.owner, c.parsed.repo, stars, date)
                   ELSE NullData
           g == generate(data, DefaultSettings, now)
       IN IF data.isNull
          THEN /\ cur' = [cur EXCEPT !["manual"] =
                            Notify([c EXCEPT !.fetch = status], TRUE,
                                   FetchNotice(status))]
               /\ pc' = [pc EXCEPT !["manual"] = "returned"]
          ELSE IF g.threw
          THEN /\ cur' = [cur EXCEPT !["manual"] =
                            [c EXCEPT !.fetch = status, !.data = data,
                                      !.now = now, !.threw = TRUE]]
               /\ pc' = [pc EXCEPT !["manual"] = "rejected"]
          ELSE /\ cur' = [cur EXCEPT !["manual"] =
                            [c EXCEPT !.fetch = status, !.data = data, !.now = now,
                                      !.file = fileName(data.repo),
                                      !.newContent = g.text,
                                      !.finalContent = g.text,
                                      !.write = "pending"]]
               /\ pc' = [pc EXCEPT !["manual"] = "createWrite"]
  /\ UNCHANGED <<content, frontmatter, files, idx, log, plugin, deleted>>

\* create-snapshot.ts:53-70 : vault.modify of the existing file, or
\* vault.create, settles; a rejection is caught
createWriteReturns ==
  /\ pc["manual"] = "createWrite"
  /\ LET c == cur["manual"]
         done == IF c.file \in deleted THEN "Created" ELSE "Updated"
     IN \/ /\ content' = [content EXCEPT ![c.file] = c.finalContent]
           /\ deleted' = deleted \ {c.file}
           /\ cur' = [cur EXCEPT !["manual"] =
                        Notify([c EXCEPT !.write = "ok"], TRUE, done)]
        \/ /\ UNCHANGED <<content, deleted>>
           /\ cur' = [cur EXCEPT !["manual"] =
                        Notify([c EXCEPT !.write = "rejected"], TRUE,
                               "Error creating note")]
  /\ pc' = [pc EXCEPT !["manual"] = "returned"]
  /\ UNCHANGED <<frontmatter, files, idx, log, plugin>>

\* imports, one after the other
NextCreate ==
  \/ \E owner \in ImportOwners, repo \in ImportRepos : createSnapshot(owner, repo)
  \/ createFetchReturns
  \/ createWriteReturns
  \/ \E f \in Files : metadataCacheChanged(f)

SpecCreate == InitCreate /\ [][NextCreate]_vars

\* the repository whose tracked document the text is: its repo_url
TrackedRepo(text) == ParseFrontMatter(text).repo_url

(***************************************************************************)
(* C29: no import turns the tracked document of one repository into the    *)
(* document of another: owner1/x and owner2/x never share a document.      *)
(***************************************************************************)
C29_NoSharedDocument ==
  [][\A f \in Files :
       (f \notin deleted /\ TrackedRepo(content[f]) # <<>> /\ content'[f] # content[f])
       => TrackedRepo(content'[f]) = TrackedRepo(content[f])]_vars

(***************************************************************************)
(* C30: an import of a repository whose tracked document exists, with text *)
(* behind the marker, leaves that text at the end of the document.         *)
(***************************************************************************)
C30_CreateKeepsPreserved ==
  [][\A f \in Files :
       ( /\ pc["manual"] = "createWrite"
         /\ cur["manual"].file = f
         /\ f \notin deleted
         /\ TrackedRepo(content[f]) = cur["manual"].data.url
         /\ HasMarker(content[f])
         /\ cur'["manual"].write = "ok" )
       => EndsWith(content'[f], AfterFirstMarker(content[f]))]_vars

====
